---- MODULE Spec2Model ----
(***************************************************************************)
(* State-machine model of gowut (package gwu):                             *)
(*   tabpanel.go      TabPanel and its internal TabBar                      *)
(*   chkbox_radio.go  CheckBox, RadioButton, RadioGroup and SwitchButton    *)
(*   textbox_pwbox.go TextBox and PasswBox                                  *)
(*                                                                         *)
(* Go slices are 0-based; TLA+ sequences are 1-based.  All indices in this  *)
(* module (selected, idx, CompIdx, CompAt) are the Go, 0-based ones.        *)
(*                                                                         *)
(* A Go panic (a method call on the nil Comp that CompAt returns for an     *)
(* index out of range, or a slice indexed out of range) aborts the running  *)
(* call: the fields                                                         *)
(* the call had already written keep their values, the call returns         *)
(* nothing, and the flag panicked is set.  Nothing in these files recovers  *)
(* a panic, so a panic ends the run: no further call is made on the panel.  *)
(***************************************************************************)
EXTENDS Integers, Sequences, FiniteSets, TLC

\* ------------------------------------------------------------------ bounds

\* Number of selector components and of content components the application
\* has created and may add to, remove from and add again to the TabPanel.
NumComps == 3

\* SetSelected is called with the negative indices -1 and -MaxNeg, and with
\* every idx in 0 .. NumComps.
MaxNeg == 2

\* Number of RadioButtons created in each RadioGroup.
NumRadio == 3

\* An inbound request carries at most MaxValues values of the component
\* value parameter for a TextBox.
MaxValues == 2

\* ------------------------------------------------------------ components

\* The nil Comp / nil RadioButton, and the nil RadioGroup of a CheckBox.
Nil == <<"nil", 0>>

NoGroup == "none"

TabComps == {<<"tab", i>> : i \in 1..NumComps}

ContentComps == {<<"content", i>> : i \in 1..NumComps}

AllComps == TabComps \cup ContentComps

SelIdxs == {0 - MaxNeg, -1} \cup (0..NumComps)

ClsSelected == "gwu-TabBar-Selected"

ClsNotSelected == "gwu-TabBar-NotSelected"

\* Tab bar placements, lines 56-61
TB_PLACEMENT_TOP == 0

TB_PLACEMENT_BOTTOM == 1

TB_PLACEMENT_LEFT == 2

TB_PLACEMENT_RIGHT == 3

Placements ==
    {TB_PLACEMENT_TOP, TB_PLACEMENT_BOTTOM, TB_PLACEMENT_LEFT, TB_PLACEMENT_RIGHT}

VARIABLES
    comps,      \* tabPanelImpl.panelImpl.comps: the content components
    bar,        \* tabPanelImpl.tabBarImpl.panelImpl.comps: the selectors
    selected,   \* tabPanelImpl.selected
    style,      \* style classes of every selector component (in the bar or not)
    ret,        \* what the last call returned: "true", "false", "none"
    panicked,   \* the last call panicked instead of returning: the run is over
    lastOp,     \* the last call and its arguments
    pre,        \* the panel as it was when the last call started
    handlers,   \* selector -> the contents its click handlers close over
    addedWith,  \* content in the panel -> the selector it was added with
    dirty,      \* the event being dispatched has marked the TabPanel dirty
    tabBarPlacement,    \* tabPanelImpl.tabBarPlacement
    barStyle,   \* style classes of the tab bar itself
    out,        \* what the last call wrote to its writer
    state,      \* stateButtonImpl.state of every CheckBox and RadioButton
    grpSelected,    \* radioGroupImpl.selected of every RadioGroup
    grpPrevSelected,\* radioGroupImpl.prevSelected of every RadioGroup
    btnLast,    \* the last StateButton or SwitchButton call and its arguments
    btnPre,     \* the buttons and groups as they were when that call started
    swState,    \* switchButtonImpl.state
    onButton,   \* style class of switchButtonImpl.onButton
    offButton,  \* style class of switchButtonImpl.offButton
    swWrites,   \* number of style class writes the last call made
    swPre,      \* the SwitchButton as it was when the last call started
    text,       \* textBoxImpl.hasTextImpl.text of every TextBox
    txtLast,    \* the last request a TextBox preprocessed
    txtPre      \* the texts as they were when that request arrived

tabVars ==
    <<comps, bar, selected, style, handlers, ret, panicked, lastOp, pre, addedWith,
      dirty, tabBarPlacement, barStyle, out>>

btnVars ==
    <<state, grpSelected, grpPrevSelected, btnLast, btnPre,
      swState, onButton, offButton, swWrites, swPre>>

txtVars == <<text, txtLast, txtPre>>

vars == <<tabVars, btnVars, txtVars>>

\* ----------------------------------------------- panelImpl (not in src/)

Range(s) == {s[k] : k \in 1..Len(s)}

CompsCount(s) == Len(s)

CompAt(s, idx) == IF idx < 0 \/ idx >= Len(s) THEN Nil ELSE s[idx + 1]

CompIdx(s, c) ==
    IF \E k \in 1..Len(s) : s[k] = c
    THEN (CHOOSE k \in 1..Len(s) : s[k] = c /\ \A j \in 1..(k - 1) : s[j] # c) - 1
    ELSE -1

\* panelImpl.Remove: the sequence without the component at CompIdx(s, c)
panelImpl_Remove(s, c) ==
    LET i == CompIdx(s, c) IN
    IF i < 0 THEN s
    ELSE [k \in 1..(Len(s) - 1) |-> IF k <= i THEN s[k] ELSE s[k + 1]]

panelImpl_Add(s, c) == Append(s, c)

panelImpl_Clear(s) == << >>

\* ------------------------------------------------- Style (not in src/)

AddClass(classes, cls) == classes \cup {cls}

RemoveClass(classes, cls) == classes \ {cls}

\* --------------------------------------------- compImpl (not in src/)

\* AddEHandlerFunc(handler, ETYPE_CLICK): hs are the contents the selector's
\* click handlers were registered for.  Add registers the closure
\* "c.SetSelected(c.CompIdx(content)); e.MarkDirty(c)"; a second Add of the
\* same selector with the same content registers a second handler that
\* repeats the first (SetSelected(j) right after a completed SetSelected(j)
\* changes nothing, and after one that panicked it is not run), so the
\* handlers of a selector are kept as the set of contents they close over.
AddEHandlerFunc(hs, content) == hs \cup {content}

\* ---------------------------------------------------------- tabPanelImpl

\* The panel as a value: the fields a call reads and writes, with the
\* outcome (ret, panicked) of the call being evaluated.
ThisPanel ==
    [comps |-> comps, bar |-> bar, selected |-> selected, style |-> style,
     handlers |-> handlers, ret |-> "none", panicked |-> FALSE,
     dirty |-> FALSE, tabBarPlacement |-> tabBarPlacement,
     barStyle |-> barStyle, out |-> << >>]

\* A method call on a nil Comp: the call stops here.
Panic(p) == [p EXCEPT !.panicked = TRUE, !.ret = "none"]

Return(p, v) == IF p.panicked THEN p ELSE [p EXCEPT !.ret = v]

\* The style class of the tab bar for a placement, lines 211-242
PlacementClass(placement) ==
    CASE placement = TB_PLACEMENT_TOP -> "gwu-TabBar-Top"
      [] placement = TB_PLACEMENT_BOTTOM -> "gwu-TabBar-Bottom"
      [] placement = TB_PLACEMENT_LEFT -> "gwu-TabBar-Left"
      [] placement = TB_PLACEMENT_RIGHT -> "gwu-TabBar-Right"

\* SetTabBarPlacement, lines 208-243 (the layout and the alignment of the
\* tab bar are kept by panelImpl, which is not in src/)
tabPanelImpl_SetTabBarPlacement(p, placement) ==
    LET p1 == [p EXCEPT !.barStyle =
                 RemoveClass(@, PlacementClass(p.tabBarPlacement))]
        p2 == [p1 EXCEPT !.tabBarPlacement = placement]
    IN  [p2 EXCEPT !.barStyle = AddClass(@, PlacementClass(placement))]

\* NewTabPanel, lines 134-144: the struct is built with the zero placement
\* (TB_PLACEMENT_TOP) and SetTabBarPlacement(TB_PLACEMENT_TOP) is called
NewTabPanel ==
    tabPanelImpl_SetTabBarPlacement(
        [comps |-> << >>, bar |-> << >>, selected |-> -1,
         style |-> [t \in TabComps |-> {}],
         handlers |-> [t \in TabComps |-> {}],
         ret |-> "none", panicked |-> FALSE, dirty |-> FALSE,
         tabBarPlacement |-> TB_PLACEMENT_TOP,
         barStyle |-> AddClass({}, "gwu-TabBar"), out |-> << >>],
        TB_PLACEMENT_TOP)

tabPanelImpl_Selected(p) == p.selected

\* Mutant of tabPanelImpl_SetSelected: idx = CompsCount() is let through.
SetSelected_CountAllowed(p, idx) ==
    IF idx > CompsCount(p.comps) THEN p
    ELSE
      LET cur == CompAt(p.bar, p.selected) IN
      IF p.selected >= 0 /\ cur = Nil THEN Panic(p)
      ELSE
        LET p1 == IF p.selected >= 0
                  THEN [p EXCEPT !.style[cur] =
                          AddClass(RemoveClass(@, ClsSelected), ClsNotSelected)]
                  ELSE p
            p2 == [p1 EXCEPT !.selected = idx]
            new == CompAt(p2.bar, idx)
        IN  IF p2.selected >= 0
            THEN IF new = Nil THEN Panic(p2)
                 ELSE [p2 EXCEPT !.style[new] =
                         AddClass(RemoveClass(@, ClsNotSelected), ClsSelected)]
            ELSE p2

\* SetSelected, lines 273-293
tabPanelImpl_SetSelected(p, idx) ==
    IF idx >= CompsCount(p.comps) THEN p
    ELSE
      LET cur == CompAt(p.bar, p.selected) IN
      IF p.selected >= 0 /\ cur = Nil THEN Panic(p)
      ELSE
        LET p1 == IF p.selected >= 0
                  THEN [p EXCEPT !.style[cur] =
                          AddClass(RemoveClass(@, ClsSelected), ClsNotSelected)]
                  ELSE p
            p2 == [p1 EXCEPT !.selected = idx]
            new == CompAt(p2.bar, idx)
        IN  IF p2.selected >= 0
            THEN IF new = Nil THEN Panic(p2)
                 ELSE [p2 EXCEPT !.style[new] =
                         AddClass(RemoveClass(@, ClsNotSelected), ClsSelected)]
            ELSE p2

\* ------------------------------------------------------------- rendering

\* What a call writes: a markup fragment, or the rendering of a component.
Fragment(tag) == [tag |-> tag, comp |-> Nil]

Rendered(tag, c) == [tag |-> tag, comp |-> c]

Write(p, fragments) == [p EXCEPT !.out = @ \o fragments]

\* tabBarImpl.Render is panelImpl.Render (not in src/): the bar renders its
\* children, the selectors, in their order.
tabBarImpl_Render(p) ==
    Write(p, <<Fragment("tabBar")>> \o
             [k \in 1..Len(p.bar) |-> Rendered("comp", p.bar[k])])

\* Mutant of tabPanelImpl_renderContent: every content component is
\* rendered, the selected one or not.
renderContent_AllComps(p) ==
    Write(p, [k \in 1..Len(p.comps) |-> Rendered("comp", p.comps[k])])

\* renderContent, lines 329-339; c.comps[c.selected] with an index out of
\* range panics
tabPanelImpl_renderContent(p) ==
    IF p.selected >= 0
    THEN IF p.selected >= Len(p.comps) THEN Panic(p)
         ELSE LET c2 == p.comps[p.selected + 1]
              IN  Write(p, <<Rendered("td", c2), Rendered("comp", c2)>>)
    ELSE Write(p, <<Fragment("<td>")>>)

\* Render, lines 295-327
tabPanelImpl_Render(p) ==
    LET opened == Write(p, <<Fragment("<table>")>>)
        body ==
          CASE p.tabBarPlacement = TB_PLACEMENT_TOP ->
                 tabPanelImpl_renderContent(
                     Write(tabBarImpl_Render(
                               Write(opened, <<Fragment("tabBarFmt:tr"),
                                               Fragment("<td>")>>)),
                           <<Fragment("<tr>")>>))
            [] p.tabBarPlacement = TB_PLACEMENT_BOTTOM ->
                 LET content == tabPanelImpl_renderContent(
                                    Write(opened, <<Fragment("<tr>")>>))
                 IN  IF content.panicked THEN content
                     ELSE tabBarImpl_Render(
                              Write(content, <<Fragment("tabBarFmt:tr"),
                                               Fragment("<td>")>>))
            [] p.tabBarPlacement = TB_PLACEMENT_LEFT ->
                 tabPanelImpl_renderContent(
                     tabBarImpl_Render(
                         Write(opened, <<Fragment("<tr>"),
                                         Fragment("tabBarFmt:td")>>)))
            [] p.tabBarPlacement = TB_PLACEMENT_RIGHT ->
                 LET content == tabPanelImpl_renderContent(
                                    Write(opened, <<Fragment("<tr>")>>))
                 IN  IF content.panicked THEN content
                     ELSE tabBarImpl_Render(
                              Write(content, <<Fragment("tabBarFmt:td")>>))
    IN  IF body.panicked THEN body
        ELSE Write(body, <<Fragment("</table>")>>)

\* Mutant of RemovePair: the selector taken out of the bar is its first one,
\* not the one at the content's index.
RemovePair_FirstTab(p, c2, i) ==
    LET p1 == [p EXCEPT !.bar = panelImpl_Remove(@, CompAt(p.bar, 0))]
    IN  [p1 EXCEPT !.comps = panelImpl_Remove(@, c2)]

\* Remove, lines 160-161: c2 is the content component at index i
RemovePair(p, c2, i) ==
    LET p1 == [p EXCEPT !.bar = panelImpl_Remove(@, CompAt(p.bar, i))]
    IN  [p1 EXCEPT !.comps = panelImpl_Remove(@, c2)]

\* Mutant of AdjustSelected: the index is not decremented when a pair before
\* the selection is removed.
AdjustSelected_NoDecrement(p, i) ==
    IF i < p.selected
    THEN p
    ELSE IF i = p.selected
         THEN IF i < CompsCount(p.comps)
              THEN tabPanelImpl_SetSelected(p, i)
              ELSE IF i > 0
                   THEN tabPanelImpl_SetSelected(p, i - 1)
                   ELSE tabPanelImpl_SetSelected(p, -1)
         ELSE p

\* Mutant of AdjustSelected: removing the selected pair does not select the
\* pair that takes its place.
AdjustSelected_NoReselect(p, i) ==
    IF i < p.selected
    THEN [p EXCEPT !.selected = @ - 1]
    ELSE p

\* Remove, lines 163-173: i is the index the removed pair had
AdjustSelected(p, i) ==
    IF i < p.selected
    THEN [p EXCEPT !.selected = @ - 1]
    ELSE IF i = p.selected
         THEN IF i < CompsCount(p.comps)
              THEN tabPanelImpl_SetSelected(p, i)
              ELSE IF i > 0
                   THEN tabPanelImpl_SetSelected(p, i - 1)
                   ELSE tabPanelImpl_SetSelected(p, -1)
         ELSE p

\* Remove, lines 159-175: c2 is a content component at index i
RemoveContent(p, c2, i) == Return(AdjustSelected(RemovePair(p, c2, i), i), "true")

\* Mutant of tabPanelImpl_Remove: a component found nowhere deselects.
Remove_AbsentDeselects(p, c2) ==
    LET i == CompIdx(p.comps, c2) IN
    IF i < 0
    THEN LET j == CompIdx(p.bar, c2) IN
         IF j < 0 THEN Return(tabPanelImpl_SetSelected(p, -1), "false")
         ELSE LET c3 == CompAt(p.comps, j) IN
              IF CompIdx(p.comps, c3) < 0 THEN Return(p, "false")
              ELSE RemoveContent(p, c3, CompIdx(p.comps, c3))
    ELSE RemoveContent(p, c2, i)

\* Remove, lines 146-176
tabPanelImpl_Remove(p, c2) ==
    LET i == CompIdx(p.comps, c2) IN
    IF i < 0
    THEN LET j == CompIdx(p.bar, c2) IN
         IF j < 0 THEN Return(p, "false")
         ELSE LET c3 == CompAt(p.comps, j) IN
              \* c.Remove(c.panelImpl.CompAt(i)): the recursive call finds c3
              \* among the content components, or nowhere when c3 is nil
              IF CompIdx(p.comps, c3) < 0 THEN Return(p, "false")
              ELSE RemoveContent(p, c3, CompIdx(p.comps, c3))
    ELSE RemoveContent(p, c2, i)

\* tabBarImpl.Remove, lines 34-50 (the bar's parent is always its TabPanel)
tabBarImpl_Remove(p, c2) ==
    LET i == CompIdx(p.bar, c2) IN
    IF i < 0 THEN Return(p, "false")
    ELSE tabPanelImpl_Remove(p, CompAt(p.comps, i))

\* Clear, lines 193-198
tabPanelImpl_Clear(p) ==
    LET p1 == [p EXCEPT !.bar = panelImpl_Clear(@)]
        p2 == [p1 EXCEPT !.comps = panelImpl_Clear(@)]
    IN  tabPanelImpl_SetSelected(p2, -1)

\* Add, lines 249-263
tabPanelImpl_Add(p, tab, content) ==
    LET p1 == [p EXCEPT !.bar = panelImpl_Add(@, tab)]
        p2 == [p1 EXCEPT !.comps = panelImpl_Add(@, content)]
        p3 == [p2 EXCEPT !.style[tab] = AddClass(@, ClsNotSelected)]
        p4 == IF CompsCount(p3.comps) = 1
              THEN tabPanelImpl_SetSelected(p3, 0)
              ELSE p3
    IN  IF p4.panicked THEN p4
        ELSE [p4 EXCEPT !.handlers[tab] = AddEHandlerFunc(@, content)]

\* Event.MarkDirty(c) (not in src/)
MarkDirty(p) == [p EXCEPT !.dirty = TRUE]

\* Mutant of ClickHandler: the handler selects the last pair, the index its
\* content had when the handler was registered.
ClickHandler_SelectsLast(p, content) ==
    LET q == tabPanelImpl_SetSelected(p, CompsCount(p.comps) - 1)
    IN  IF q.panicked THEN q ELSE MarkDirty(q)

\* Add, lines 259-262: the click handler registered for content
ClickHandler(p, content) ==
    LET q == tabPanelImpl_SetSelected(p, CompIdx(p.comps, content))
    IN  IF q.panicked THEN q ELSE MarkDirty(q)

\* Dispatch of a click event (not in src/): the handlers registered on the
\* selector run one after the other; a panic stops the dispatch.
RECURSIVE DispatchClick(_, _)
DispatchClick(p, hs) ==
    IF hs = {} \/ p.panicked THEN p
    ELSE LET content == CHOOSE h \in hs : TRUE
         IN  DispatchClick(ClickHandler(p, content), hs \ {content})

\* ------------------------------------------- RadioGroup, stateButtonImpl

Groups == {"g", "h"}

RadioButtons == {<<g, i>> : g \in Groups, i \in 1..NumRadio}

CheckBoxes == {<<NoGroup, 1>>}

Buttons == RadioButtons \cup CheckBoxes

\* stateButtonImpl.Group, lines 237-239: nil for a CheckBox
Group(c) == c[1]

\* The buttons and their groups as a value.
TheseButtons ==
    [state |-> state, selected |-> grpSelected, prevSelected |-> grpPrevSelected]

\* NewRadioGroup, NewCheckBox, NewRadioButton, newStateButtonImpl: lines 134-181
NewButtons ==
    [state |-> [b \in Buttons |-> FALSE],
     selected |-> [g \in Groups |-> Nil],
     prevSelected |-> [g \in Groups |-> Nil]]

radioGroupImpl_Selected(r, g) == r.selected[g]

radioGroupImpl_PrevSelected(r, g) == r.prevSelected[g]

\* Mutant of radioGroupImpl_setSelected: the previous selection is not kept.
setSelected_ForgetsPrev(r, g, sel) == [r EXCEPT !.selected[g] = sel]

\* Mutant of radioGroupImpl_setSelected: the two assignments are swapped, so
\* the previous selection is the new one.
setSelected_PrevAfter(r, g, sel) ==
    [r EXCEPT !.prevSelected[g] = sel, !.selected[g] = sel]

\* setSelected, lines 195-198
radioGroupImpl_setSelected(r, g, sel) ==
    [r EXCEPT !.prevSelected[g] = r.selected[g], !.selected[g] = sel]

\* Mutant of stateButtonImpl_setStateProp: the button is left as it was.
setStateProp_Dropped(r, c, st) == r

\* setStateProp, lines 241-243
stateButtonImpl_setStateProp(r, c, st) == [r EXCEPT !.state[c] = st]

stateButtonImpl_State(r, c) == r.state[c]

\* compImpl.Equals (not in src/): components are equal when they are the same
Equals(c1, c2) == c1 = c2

\* Mutant of stateButtonImpl_SetState: switching the selected member off
\* leaves the group's selection as it is.
SetState_KeepsSelection(r, c, st) ==
    IF r.state[c] = st THEN r
    ELSE
      LET r1 ==
            IF Group(c) # NoGroup
            THEN LET g == Group(c)
                     sel == radioGroupImpl_Selected(r, g)
                 IN  IF sel = Nil
                     THEN IF st THEN radioGroupImpl_setSelected(r, g, c) ELSE r
                     ELSE IF st
                          THEN IF ~Equals(sel, c)
                               THEN radioGroupImpl_setSelected(
                                        stateButtonImpl_setStateProp(r, sel, FALSE), g, c)
                               ELSE r
                          ELSE r
            ELSE r
      IN  [r1 EXCEPT !.state[c] = st]

\* SetState, lines 204-235
stateButtonImpl_SetState(r, c, st) ==
    IF r.state[c] = st THEN r
    ELSE
      LET r1 ==
            IF Group(c) # NoGroup
            THEN LET g == Group(c)
                     sel == radioGroupImpl_Selected(r, g)
                 IN  IF sel = Nil
                     THEN IF st THEN radioGroupImpl_setSelected(r, g, c) ELSE r
                     ELSE IF st
                          THEN IF ~Equals(sel, c)
                               THEN radioGroupImpl_setSelected(
                                        stateButtonImpl_setStateProp(r, sel, FALSE), g, c)
                               ELSE r
                          ELSE radioGroupImpl_setSelected(r, g, Nil)
            ELSE r
      IN  [r1 EXCEPT !.state[c] = st]

\* ------------------------------------------- inbound requests (net/http)

\* Values the component value parameter arrives with: the empty string, a
\* literal ParseBool reads as true, one it reads as false, and one it
\* rejects.
RawValues == {"", "true", "0", "on"}

\* r.Form[_PARAM_COMP_VALUE]: the parameter is absent, or present with its
\* values in the order they were sent.
Absent == [present |-> FALSE, values |-> << >>]

Requests(n) ==
    {Absent} \cup
    {[present |-> TRUE, values |-> vs] :
        vs \in UNION {[1..k -> RawValues] : k \in 1..n}}

\* r.FormValue(_PARAM_COMP_VALUE): the first value, "" when there is none
FormValue(r) ==
    IF r.present /\ Len(r.values) > 0 THEN r.values[1] ELSE ""

\* strconv.ParseBool
ParseBool(str) ==
    [v |-> str \in {"1", "t", "T", "TRUE", "true", "True"},
     err |-> str \notin {"1", "t", "T", "TRUE", "true", "True",
                         "0", "f", "F", "FALSE", "false", "False"}]

\* Mutant of stateButtonImpl_preprocessEvent: the parsed value is assigned
\* to the button, the group is not told.
preprocessEvent_AssignsState(r, c, req) ==
    LET value == FormValue(req) IN
    IF Len(value) = 0 THEN r
    ELSE IF ~ParseBool(value).err
         THEN stateButtonImpl_setStateProp(r, c, ParseBool(value).v)
         ELSE r

\* stateButtonImpl.preprocessEvent, lines 245-256
stateButtonImpl_preprocessEvent(r, c, req) ==
    LET value == FormValue(req) IN
    IF Len(value) = 0 THEN r
    ELSE IF ~ParseBool(value).err
         THEN stateButtonImpl_SetState(r, c, ParseBool(value).v)
         ELSE r

\* ------------------------------------------------------ switchButtonImpl

TheSwitchButton == <<"switch", 1>>

ClsOnActive == "gwu-SwitchButton-On-Active"

ClsOnInactive == "gwu-SwitchButton-On-Inactive"

ClsOffActive == "gwu-SwitchButton-Off-Active"

ClsOffInactive == "gwu-SwitchButton-Off-Inactive"

\* Style.SetClass (not in src/): the class becomes cls, whatever it was
SetClass(classes, cls) == cls

\* The SwitchButton as a value, with the count of the style class writes of
\* the call being evaluated.
ThisSwitch ==
    [state |-> swState, onButton |-> onButton, offButton |-> offButton,
     writes |-> 0]

\* Mutant of switchButtonImpl_SetState: the sub-buttons are restyled before
\* the new state is stored.
SetState_StylesOldState(sw, st) ==
    IF sw.state = st THEN sw
    ELSE IF sw.state
         THEN [sw EXCEPT !.state = st,
                         !.onButton = SetClass(@, ClsOnActive),
                         !.offButton = SetClass(@, ClsOffInactive),
                         !.writes = @ + 2]
         ELSE [sw EXCEPT !.state = st,
                         !.onButton = SetClass(@, ClsOnInactive),
                         !.offButton = SetClass(@, ClsOffActive),
                         !.writes = @ + 2]

\* Mutant of switchButtonImpl_SetState: the early return is missing.
SetState_AlwaysStyles(sw, st) ==
    IF st
    THEN [sw EXCEPT !.state = st,
                    !.onButton = SetClass(@, ClsOnActive),
                    !.offButton = SetClass(@, ClsOffInactive),
                    !.writes = @ + 2]
    ELSE [sw EXCEPT !.state = st,
                    !.onButton = SetClass(@, ClsOnInactive),
                    !.offButton = SetClass(@, ClsOffActive),
                    !.writes = @ + 2]

\* switchButtonImpl.SetState, lines 302-317
switchButtonImpl_SetState(sw, st) ==
    IF sw.state = st THEN sw
    ELSE IF st
         THEN [sw EXCEPT !.state = st,
                         !.onButton = SetClass(@, ClsOnActive),
                         !.offButton = SetClass(@, ClsOffInactive),
                         !.writes = @ + 2]
         ELSE [sw EXCEPT !.state = st,
                         !.onButton = SetClass(@, ClsOnInactive),
                         !.offButton = SetClass(@, ClsOffActive),
                         !.writes = @ + 2]

\* NewSwitchButton, lines 149-165: built with state true and unstyled
\* sub-buttons, then SetState(false)
NewSwitchButton ==
    switchButtonImpl_SetState(
        [state |-> TRUE, onButton |-> "", offButton |-> "", writes |-> 0], FALSE)

\* switchButtonImpl.preprocessEvent, lines 331-344
switchButtonImpl_preprocessEvent(sw, req) ==
    LET value == FormValue(req) IN
    IF Len(value) = 0 THEN sw
    ELSE IF ~ParseBool(value).err
         THEN switchButtonImpl_SetState(sw, ParseBool(value).v)
         ELSE sw

\* ----------------------------------------------------------- textBoxImpl

\* One TextBox and one PasswBox; both are a textBoxImpl.
TextBoxes == {"TextBox", "PasswBox"}

\* NewTextBox(""), NewPasswBox(""): lines 95-113
NewTextBoxes == [b \in TextBoxes |-> ""]

\* Mutant of textBoxImpl_preprocessEvent: an empty value is taken for no
\* value, as the state buttons do.
preprocessEvent_SkipsEmpty(t, req) ==
    LET value == FormValue(req) IN
    IF Len(value) > 0 THEN value ELSE t

\* textBoxImpl.preprocessEvent, lines 161-174: t is the text of the box
textBoxImpl_preprocessEvent(t, req) ==
    LET value == FormValue(req) IN
    IF Len(value) > 0 THEN value
    ELSE IF req.present /\ Len(req.values) > 0
         THEN req.values[1]
         ELSE t

\* ------------------------------------------------------------- actions

\* What a call finds: the fields of the panel as they are when it starts.
ThePre ==
    [comps |-> comps, bar |-> bar, selected |-> selected, style |-> style,
     tabBarPlacement |-> tabBarPlacement, barStyle |-> barStyle]

\* The panel after a call: q is the value the call computed from ThisPanel.
Becomes(q) ==
    /\ comps' = q.comps
    /\ bar' = q.bar
    /\ selected' = q.selected
    /\ style' = q.style
    /\ handlers' = q.handlers
    /\ ret' = q.ret
    /\ panicked' = q.panicked
    /\ dirty' = q.dirty
    /\ tabBarPlacement' = q.tabBarPlacement
    /\ barStyle' = q.barStyle
    /\ out' = q.out
    /\ pre' = ThePre
    /\ addedWith' = [c \in ContentComps |->
                       IF c \in Range(q.comps) THEN addedWith[c] ELSE Nil]

NoArgs == [op |-> "none", comp |-> Nil, tab |-> Nil, idx |-> -1]

\* The application adds selector i together with content i, and only while
\* neither is owned by the panel (a component has one owning container).
TabPanel_Add ==
    \E i \in 1..NumComps :
        LET tab == <<"tab", i>>
            content == <<"content", i>>
            q == tabPanelImpl_Add(ThisPanel, tab, content) IN
        /\ ~panicked
        /\ tab \notin Range(bar)
        /\ content \notin Range(comps)
        /\ comps' = q.comps
        /\ bar' = q.bar
        /\ selected' = q.selected
        /\ style' = q.style
        /\ handlers' = q.handlers
        /\ ret' = q.ret
        /\ panicked' = q.panicked
        /\ dirty' = q.dirty
        /\ tabBarPlacement' = q.tabBarPlacement
        /\ barStyle' = q.barStyle
        /\ out' = q.out
        /\ pre' = ThePre
        /\ addedWith' = [addedWith EXCEPT ![content] = tab]
        /\ lastOp' = [NoArgs EXCEPT !.op = "Add", !.tab = tab, !.comp = content]
        /\ UNCHANGED <<btnVars, txtVars>>

TabPanel_Remove ==
    \E c2 \in AllComps :
        /\ ~panicked
        /\ Becomes(tabPanelImpl_Remove(ThisPanel, c2))
        /\ lastOp' = [NoArgs EXCEPT !.op = "Remove", !.comp = c2]
        /\ UNCHANGED <<btnVars, txtVars>>

\* A content component is as absent from the bar as a selector not in it.
TabBar_Remove ==
    \E c2 \in TabComps :
        /\ ~panicked
        /\ Becomes(tabBarImpl_Remove(ThisPanel, c2))
        /\ lastOp' = [NoArgs EXCEPT !.op = "TabBar.Remove", !.comp = c2]
        /\ UNCHANGED <<btnVars, txtVars>>

TabPanel_Clear ==
    /\ ~panicked
    /\ Becomes(tabPanelImpl_Clear(ThisPanel))
    /\ lastOp' = [NoArgs EXCEPT !.op = "Clear"]
    /\ UNCHANGED <<btnVars, txtVars>>

TabPanel_SetSelected ==
    \E idx \in SelIdxs :
        /\ ~panicked
        /\ Becomes(tabPanelImpl_SetSelected(ThisPanel, idx))
        /\ lastOp' = [NoArgs EXCEPT !.op = "SetSelected", !.idx = idx]
        /\ UNCHANGED <<btnVars, txtVars>>

\* The user clicks a selector shown in the tab bar.
TabPanel_Click ==
    \E tab \in TabComps :
        /\ ~panicked
        /\ tab \in Range(bar)
        /\ Becomes(DispatchClick(ThisPanel, handlers[tab]))
        /\ lastOp' = [NoArgs EXCEPT !.op = "Click", !.tab = tab]
        /\ UNCHANGED <<btnVars, txtVars>>

TabPanel_SetTabBarPlacement ==
    \E placement \in Placements :
        /\ ~panicked
        /\ Becomes(tabPanelImpl_SetTabBarPlacement(ThisPanel, placement))
        /\ lastOp' = [NoArgs EXCEPT !.op = "SetTabBarPlacement", !.idx = placement]
        /\ UNCHANGED <<btnVars, txtVars>>

TabPanel_Render ==
    /\ ~panicked
    /\ Becomes(tabPanelImpl_Render(ThisPanel))
    /\ lastOp' = [NoArgs EXCEPT !.op = "Render"]
    /\ UNCHANGED <<btnVars, txtVars>>

\* A StateButton call: r is the value the call computed from TheseButtons.
ButtonsBecome(r) ==
    /\ state' = r.state
    /\ grpSelected' = r.selected
    /\ grpPrevSelected' = r.prevSelected
    /\ btnPre' = TheseButtons
    /\ swPre' = ThisSwitch
    /\ swWrites' = 0
    /\ UNCHANGED <<swState, onButton, offButton>>

NoRequest == [present |-> FALSE, values |-> << >>]

StateButton_SetState ==
    \E c \in Buttons, st \in BOOLEAN :
        /\ ButtonsBecome(stateButtonImpl_SetState(TheseButtons, c, st))
        /\ btnLast' = [op |-> "SetState", button |-> c, arg |-> st,
                       req |-> NoRequest]
        /\ UNCHANGED <<tabVars, txtVars>>

\* An inbound click on a CheckBox or RadioButton, with the value sent.
StateButton_preprocessEvent ==
    \E c \in Buttons, req \in Requests(1) :
        /\ ButtonsBecome(stateButtonImpl_preprocessEvent(TheseButtons, c, req))
        /\ btnLast' = [op |-> "preprocessEvent", button |-> c, arg |-> FALSE,
                       req |-> req]
        /\ UNCHANGED <<tabVars, txtVars>>

\* A SwitchButton call: sw is the value the call computed from ThisSwitch.
SwitchBecomes(sw) ==
    /\ swState' = sw.state
    /\ onButton' = sw.onButton
    /\ offButton' = sw.offButton
    /\ swWrites' = sw.writes
    /\ swPre' = ThisSwitch
    /\ btnPre' = TheseButtons
    /\ UNCHANGED <<state, grpSelected, grpPrevSelected>>

SwitchButton_SetState ==
    \E st \in BOOLEAN :
        /\ SwitchBecomes(switchButtonImpl_SetState(ThisSwitch, st))
        /\ btnLast' = [op |-> "SwitchButton.SetState", button |-> TheSwitchButton,
                       arg |-> st, req |-> NoRequest]
        /\ UNCHANGED <<tabVars, txtVars>>

\* An inbound click on the SwitchButton, with the value sent.
SwitchButton_preprocessEvent ==
    \E req \in Requests(1) :
        /\ SwitchBecomes(switchButtonImpl_preprocessEvent(ThisSwitch, req))
        /\ btnLast' = [op |-> "SwitchButton.preprocessEvent",
                       button |-> TheSwitchButton, arg |-> FALSE, req |-> req]
        /\ UNCHANGED <<tabVars, txtVars>>

\* An inbound change of a TextBox or PasswBox, with the values sent.
TextBox_preprocessEvent ==
    \E b \in TextBoxes, req \in Requests(MaxValues) :
        /\ text' = [text EXCEPT ![b] = textBoxImpl_preprocessEvent(@, req)]
        /\ txtLast' = [box |-> b, req |-> req]
        /\ txtPre' = text
        /\ UNCHANGED <<tabVars, btnVars>>

InitTab ==
    /\ comps = NewTabPanel.comps
    /\ bar = NewTabPanel.bar
    /\ selected = NewTabPanel.selected
    /\ style = NewTabPanel.style
    /\ handlers = NewTabPanel.handlers
    /\ ret = "none"
    /\ panicked = FALSE
    /\ dirty = NewTabPanel.dirty
    /\ tabBarPlacement = NewTabPanel.tabBarPlacement
    /\ barStyle = NewTabPanel.barStyle
    /\ out = NewTabPanel.out
    /\ lastOp = NoArgs
    /\ pre = ThePre
    /\ addedWith = [c \in ContentComps |-> Nil]

InitButtons ==
    /\ state = NewButtons.state
    /\ grpSelected = NewButtons.selected
    /\ grpPrevSelected = NewButtons.prevSelected
    /\ btnLast = [op |-> "none", button |-> Nil, arg |-> FALSE, req |-> NoRequest]
    /\ btnPre = NewButtons
    /\ swState = NewSwitchButton.state
    /\ onButton = NewSwitchButton.onButton
    /\ offButton = NewSwitchButton.offButton
    /\ swWrites = 0
    /\ swPre = ThisSwitch

InitTextBoxes ==
    /\ text = NewTextBoxes
    /\ txtLast = [box |-> "none", req |-> NoRequest]
    /\ txtPre = NewTextBoxes

Init == InitTab /\ InitButtons /\ InitTextBoxes

\* The TabPanel and its TabBar
Next ==
    \/ TabPanel_Add
    \/ TabPanel_Remove
    \/ TabBar_Remove
    \/ TabPanel_Clear
    \/ TabPanel_SetSelected
    \/ TabPanel_Click

Spec == Init /\ [][Next]_vars

\* The TabPanel filled, a tab selected, the tab bar placed, and rendered
NextRender ==
    \/ TabPanel_Add
    \/ TabPanel_SetSelected
    \/ TabPanel_SetTabBarPlacement
    \/ TabPanel_Render

SpecRender == Init /\ [][NextRender]_vars

\* The CheckBox, the RadioButtons and their RadioGroups
NextButtons ==
    \/ StateButton_SetState

SpecButtons == Init /\ [][NextButtons]_vars

\* The CheckBox, the RadioButtons, their RadioGroups and the SwitchButton,
\* called by the application and synchronized by inbound clicks
NextSync ==
    \/ StateButton_SetState
    \/ StateButton_preprocessEvent
    \/ SwitchButton_SetState
    \/ SwitchButton_preprocessEvent

SpecSync == Init /\ [][NextSync]_vars

\* The TextBox and the PasswBox, synchronized by inbound changes
NextTextBox ==
    \/ TextBox_preprocessEvent

SpecTextBox == Init /\ [][NextTextBox]_vars

\* ------------------------------------------- vocabulary of the properties

\* 0-based index, in the panel as the last call found it, of the pair the
\* last Remove call named (by its content or by its selector); -1 if none.
RemovedIdx ==
    IF lastOp.op = "Remove"
    THEN IF CompIdx(pre.comps, lastOp.comp) >= 0
         THEN CompIdx(pre.comps, lastOp.comp)
         ELSE CompIdx(pre.bar, lastOp.comp)
    ELSE IF lastOp.op = "TabBar.Remove"
         THEN CompIdx(pre.bar, lastOp.comp)
         ELSE -1

\* The last call found the two sequences aligned and a tab selected.
PreAligned == Len(pre.comps) = Len(pre.bar)

PreHasSelection == pre.selected >= 0 /\ pre.selected < Len(pre.comps)

Completed == ~panicked

StyledSelected(t) ==
    t # Nil /\ ClsSelected \in style[t] /\ ClsNotSelected \notin style[t]

StyledNotSelected(t) ==
    t # Nil /\ ClsNotSelected \in style[t] /\ ClsSelected \notin style[t]

MembersOn(g) == {b \in RadioButtons : Group(b) = g /\ state[b]}

\* --------------------------------------------------------------- claims

\* C1: in every RadioGroup, after every SetState call on any member, at most
\* one member has state = true.
C1_MutualExclusion == \A g \in Groups : Cardinality(MembersOn(g)) <= 1

\* C1 witness: SetState(true) on a member while another member of its group
\* was selected; the caller is now the only member that is on.
C1_Witness ==
    /\ btnLast.op = "SetState" /\ btnLast.arg = TRUE
    /\ Group(btnLast.button) # NoGroup
    /\ btnPre.selected[Group(btnLast.button)] \notin {Nil, btnLast.button}
    /\ MembersOn(Group(btnLast.button)) = {btnLast.button}

\* C2: after a SetState call on a group member that changed the group's
\* selection, PrevSelected() is what Selected() returned right before the
\* call.  In a fresh group A.SetState(true) gives Selected = A and
\* PrevSelected = none; a following B.SetState(true) gives Selected = B,
\* A off and PrevSelected = A.
C2_PrevSelectedTracks ==
    (btnLast.op = "SetState" /\ Group(btnLast.button) # NoGroup) =>
        LET c == btnLast.button
            g == Group(btnLast.button)
        IN  /\ grpSelected[g] # btnPre.selected[g]
                => grpPrevSelected[g] = btnPre.selected[g]
            /\ (btnPre = NewButtons /\ btnLast.arg)
                => /\ grpSelected[g] = c
                   /\ grpPrevSelected[g] = Nil
            /\ (btnLast.arg /\ btnPre.selected[g] \notin {Nil, c}
                    /\ btnPre.state[btnPre.selected[g]])
                => /\ grpSelected[g] = c
                   /\ ~state[btnPre.selected[g]]
                   /\ grpPrevSelected[g] = btnPre.selected[g]

\* C2 witness: B.SetState(true) right after A was selected in the group.
C2_Witness ==
    /\ btnLast.op = "SetState" /\ btnLast.button = <<"g", 2>> /\ btnLast.arg = TRUE
    /\ btnPre.selected["g"] = <<"g", 1>>
    /\ grpSelected["g"] = <<"g", 2>>
    /\ grpPrevSelected["g"] = <<"g", 1>>
    /\ ~state[<<"g", 1>>]

\* C3: after every completed Add, Remove, Clear and SetSelected(idx) call,
\* whatever the integer idx, Selected() is -1 or an index i with
\* 0 <= i < CompsCount().
C3_SelectedInRange ==
    Completed =>
        (selected = -1 \/ (0 <= selected /\ selected < CompsCount(comps)))

\* C4: the content sequence and the tab-bar sequence have equal length, and
\* the selector at position i is the one added together with the content at
\* position i.
C4_Aligned ==
    /\ Len(comps) = Len(bar)
    /\ \A k \in 1..Len(comps) : k <= Len(bar) /\ bar[k] = addedWith[comps[k]]

\* C4 witness: a middle pair of three was removed through its selector.
C4_Witness ==
    /\ lastOp.op = "Remove" /\ lastOp.comp \in TabComps
    /\ ret = "true"
    /\ Len(pre.comps) = 3 /\ RemovedIdx = 1
    /\ Len(comps) = 2 /\ Len(bar) = 2

\* C5: if Selected() = i and i < CompsCount() - 1, removing the pair at
\* index i returns true and leaves Selected() = i, which now designates the
\* pair that was at index i + 1, whose selector is styled selected.
C5_RemoveSelectedNotLast ==
    (/\ RemovedIdx >= 0 /\ PreAligned
     /\ pre.selected = RemovedIdx
     /\ RemovedIdx < Len(pre.comps) - 1)
    => /\ Completed /\ ret = "true"
       /\ selected = RemovedIdx
       /\ CompAt(comps, selected) = CompAt(pre.comps, RemovedIdx + 1)
       /\ CompAt(bar, selected) = CompAt(pre.bar, RemovedIdx + 1)
       /\ StyledSelected(CompAt(bar, selected))

\* C5 witness: the selected middle pair of three was removed.
C5_Witness ==
    /\ RemovedIdx = 1 /\ pre.selected = 1 /\ Len(pre.comps) = 3
    /\ selected = 1 /\ ret = "true"
    /\ CompAt(comps, 1) = CompAt(pre.comps, 2)

\* C6: if Selected() = n - 1 on a panel of n >= 2 tabs, removing the pair at
\* index n - 1 completes, returns true and leaves Selected() = n - 2, whose
\* selector is styled selected.
C6_RemoveSelectedLast ==
    (/\ RemovedIdx >= 0 /\ PreAligned
     /\ Len(pre.comps) >= 2
     /\ pre.selected = Len(pre.comps) - 1
     /\ RemovedIdx = Len(pre.comps) - 1)
    => /\ Completed /\ ret = "true"
       /\ selected = Len(pre.comps) - 2
       /\ StyledSelected(CompAt(bar, selected))

\* C7: removing the only pair (selected, index 0) completes, returns true,
\* leaves both sequences empty and sets Selected() = -1.
C7_RemoveOnlyTab ==
    (/\ RemovedIdx = 0 /\ PreAligned
     /\ Len(pre.comps) = 1
     /\ pre.selected = 0)
    => /\ Completed /\ ret = "true"
       /\ comps = << >> /\ bar = << >>
       /\ selected = -1

\* C8: if a content component is selected at index s and the pair at index
\* i # s is removed, Selected() afterwards designates the same content
\* component: it is s - 1 when i < s and s when i > s.  With 3 pairs and
\* selection 0, removing the pair at index 1 leaves selection 0 and both
\* sequences of length 2.
C8_RemoveOtherKeepsSelection ==
    (/\ RemovedIdx >= 0 /\ PreAligned /\ PreHasSelection
     /\ RemovedIdx # pre.selected)
    => /\ Completed /\ ret = "true"
       /\ CompAt(comps, selected) = CompAt(pre.comps, pre.selected)
       /\ RemovedIdx < pre.selected => selected = pre.selected - 1
       /\ RemovedIdx > pre.selected => selected = pre.selected
       /\ Len(comps) = Len(pre.comps) - 1
       /\ Len(bar) = Len(pre.bar) - 1

\* C8 witness: with three pairs and the last one selected, the first pair
\* was removed and the selection index went from 2 to 1.
C8_Witness ==
    /\ RemovedIdx = 0 /\ Len(pre.comps) = 3 /\ pre.selected = 2
    /\ selected = 1 /\ ret = "true"
    /\ CompAt(comps, 1) = CompAt(pre.comps, 2)

\* C9: Clear() in any reachable state completes, empties both sequences and
\* sets Selected() = -1.
C9_Clear ==
    lastOp.op = "Clear"
    => /\ Completed
       /\ comps = << >> /\ bar = << >>
       /\ selected = -1

\* C10: Add on a panel with no pairs results in Selected() = 0 with the new
\* selector styled selected; Add on a panel that already holds a pair leaves
\* Selected() unchanged and the new selector styled not-selected.
C10_AddAutoSelects ==
    (lastOp.op = "Add" /\ PreAligned)
    => /\ Len(pre.comps) = 0
           => /\ Completed
              /\ selected = 0
              /\ StyledSelected(lastOp.tab)
       /\ Len(pre.comps) >= 1
           => /\ Completed
              /\ selected = pre.selected
              /\ StyledNotSelected(lastOp.tab)

\* C11: for every idx < 0 (not only -1), after SetSelected(idx) no tab is
\* selected and Selected() returns -1, and the selector that was selected
\* before the call (if any) is styled not-selected.
C11_NegativeDeselects ==
    (lastOp.op = "SetSelected" /\ lastOp.idx < 0)
    => /\ Completed
       /\ selected = -1
       /\ PreHasSelection => StyledNotSelected(CompAt(pre.bar, pre.selected))

PrePanel ==
    [comps |-> pre.comps, bar |-> pre.bar, selected |-> pre.selected,
     style |-> pre.style, handlers |-> handlers, ret |-> "none",
     panicked |-> FALSE, dirty |-> FALSE,
     tabBarPlacement |-> pre.tabBarPlacement, barStyle |-> pre.barStyle,
     out |-> << >>]

\* C13: for a pair (selector, content) at index i, TabPanel.Remove(content),
\* TabPanel.Remove(selector) and TabBar().Remove(selector) all return true
\* and produce the same state: both members of the pair removed, the other
\* pairs in the same order, and the same Selected().
C13_EntryPointIndependent ==
    (RemovedIdx >= 0 /\ PreAligned)
    => LET content == CompAt(pre.comps, RemovedIdx)
           selector == CompAt(pre.bar, RemovedIdx)
           byContent == tabPanelImpl_Remove(PrePanel, content)
           bySelector == tabPanelImpl_Remove(PrePanel, selector)
           byTabBar == tabBarImpl_Remove(PrePanel, selector)
       IN  /\ Completed /\ ret = "true"
           /\ byContent.ret = "true"
           /\ bySelector.ret = "true"
           /\ byTabBar.ret = "true"
           /\ byContent = bySelector /\ bySelector = byTabBar
           /\ comps = byContent.comps /\ bar = byContent.bar
           /\ selected = byContent.selected
           /\ comps = panelImpl_Remove(pre.comps, content)
           /\ bar = panelImpl_Remove(pre.bar, selector)

\* C14: Remove(c) and TabBar().Remove(c) for a component c that is neither a
\* content component nor a selector of the panel return false, complete, and
\* leave both sequences, Selected() and the style of every selector
\* unchanged.
C14_RemoveAbsent ==
    (/\ lastOp.op \in {"Remove", "TabBar.Remove"}
     /\ lastOp.comp \notin Range(pre.comps) \cup Range(pre.bar))
    => /\ Completed /\ ret = "false"
       /\ comps = pre.comps /\ bar = pre.bar
       /\ selected = pre.selected
       /\ style = pre.style

\* C14 witness: Remove of a content component that is not in a panel of two
\* pairs, the second of which is selected.
C14_Witness ==
    /\ lastOp.op = "Remove" /\ lastOp.comp \in ContentComps
    /\ lastOp.comp \notin Range(pre.comps)
    /\ Len(pre.comps) = 2 /\ pre.selected = 1
    /\ ret = "false" /\ selected = 1 /\ Len(comps) = 2

\* C15: in every reachable state, the one right after NewSwitchButton()
\* (whose state is false) included, State() = true implies the ON sub-button
\* has class On-Active and the OFF sub-button Off-Inactive, and State() =
\* false implies ON has On-Inactive and OFF has Off-Active.
C15_SwitchStyleFollowsState ==
    /\ ~NewSwitchButton.state
    /\ btnLast.op = "none" => ~swState
    /\ swState => (onButton = ClsOnActive /\ offButton = ClsOffInactive)
    /\ ~swState => (onButton = ClsOnInactive /\ offButton = ClsOffActive)

\* C15 witness: an inbound "true" has switched the SwitchButton on.
C15_Witness ==
    /\ btnLast.op = "SwitchButton.preprocessEvent"
    /\ btnLast.req.values = <<"true">>
    /\ ~swPre.state /\ swState
    /\ onButton = ClsOnActive /\ offButton = ClsOffInactive

\* C16: SetState(s) on a CheckBox, a RadioButton (in a group or not) or a
\* SwitchButton whose State() is s changes nothing: the button's state, the
\* group's Selected() and PrevSelected(), the state of every other member
\* and the classes of both sub-buttons of the SwitchButton are as before,
\* and no style class is written.
C16_SetSameStateNoOp ==
    /\ (btnLast.op = "SetState" /\ btnPre.state[btnLast.button] = btnLast.arg)
       => /\ TheseButtons = btnPre
          /\ ThisSwitch = swPre
          /\ swWrites = 0
    /\ (btnLast.op = "SwitchButton.SetState" /\ swPre.state = btnLast.arg)
       => /\ swState = swPre.state
          /\ onButton = swPre.onButton
          /\ offButton = swPre.offButton
          /\ swWrites = 0
          /\ TheseButtons = btnPre

\* C16 witness: SetState(true) on the SwitchButton that is on already, while
\* a RadioGroup has a selected and a previously selected member.
C16_Witness ==
    /\ btnLast.op = "SwitchButton.SetState" /\ btnLast.arg = TRUE
    /\ swPre.state /\ swState
    /\ swWrites = 0
    /\ grpSelected["g"] # Nil /\ grpPrevSelected["g"] # Nil

\* The value the last inbound click carried, as preprocessEvent reads it.
SentNothing ==
    \/ ~btnLast.req.present
    \/ btnLast.req.values[1] = ""
    \/ ParseBool(btnLast.req.values[1]).err

SentBool == ParseBool(btnLast.req.values[1]).v

\* C17: preprocessEvent of a CheckBox, a RadioButton or a SwitchButton given
\* a raw value that is absent, empty or not a boolean leaves the state, the
\* group's Selected() and PrevSelected() and the sub-button classes
\* unchanged; given a value that parses as the boolean v it has exactly the
\* effect of SetState(v), the management of the RadioGroup included.
C17_LenientSync ==
    /\ btnLast.op = "preprocessEvent"
       => /\ ThisSwitch = swPre
          /\ IF SentNothing
             THEN TheseButtons = btnPre
             ELSE TheseButtons =
                      stateButtonImpl_SetState(btnPre, btnLast.button, SentBool)
    /\ btnLast.op = "SwitchButton.preprocessEvent"
       => /\ TheseButtons = btnPre
          /\ IF SentNothing
             THEN ThisSwitch = swPre /\ swWrites = 0
             ELSE LET sw == switchButtonImpl_SetState(swPre, SentBool)
                  IN  /\ swState = sw.state
                      /\ onButton = sw.onButton
                      /\ offButton = sw.offButton
                      /\ swWrites = sw.writes

\* C17 witness: an inbound "true" for a RadioButton of a group in which
\* another member was selected; the group has been managed.
C17_Witness ==
    /\ btnLast.op = "preprocessEvent"
    /\ btnLast.req.values = <<"true">>
    /\ Group(btnLast.button) # NoGroup
    /\ btnPre.selected[Group(btnLast.button)] \notin {Nil, btnLast.button}
    /\ grpSelected[Group(btnLast.button)] = btnLast.button
    /\ grpPrevSelected[Group(btnLast.button)] =
           btnPre.selected[Group(btnLast.button)]
    /\ ~state[btnPre.selected[Group(btnLast.button)]]
    /\ state[btnLast.button]

\* C18: textBoxImpl.preprocessEvent with the value parameter present and
\* equal to "" sets the text to the empty string; with the parameter present
\* and not empty it sets the text to that value; with the parameter absent
\* it leaves the text unchanged.
C18_TextBoxSync ==
    txtLast.box # "none"
    => LET b == txtLast.box
           req == txtLast.req
       IN  /\ (req.present /\ req.values[1] = "") => text[b] = ""
           /\ (req.present /\ req.values[1] # "") => text[b] = req.values[1]
           /\ ~req.present => text[b] = txtPre[b]
           /\ \A o \in TextBoxes \ {b} : text[o] = txtPre[o]

\* C18 witness: a TextBox holding a text has received a present, empty
\* value and is empty now.
C18_Witness ==
    /\ txtLast.box = "TextBox"
    /\ txtLast.req = [present |-> TRUE, values |-> <<"">>]
    /\ txtPre["TextBox"] # ""
    /\ text["TextBox"] = ""

\* C19: in every state reached through completed Add, Remove, Clear and
\* SetSelected calls, each selector in the tab bar carries exactly one of
\* the classes Selected and NotSelected, and it carries Selected if and only
\* if its position is Selected().
C19_StyleMatchesSelection ==
    Completed =>
        \A k \in 1..Len(bar) :
            /\ (ClsSelected \in style[bar[k]]) # (ClsNotSelected \in style[bar[k]])
            /\ (ClsSelected \in style[bar[k]]) <=> (k - 1 = selected)

\* C20: after any sequence of Add and Remove calls, running the click handler
\* of a selector that is in the tab bar at position i sets Selected() = i,
\* the index its content has at click time, and marks the TabPanel dirty.
C20_ClickSelects ==
    (lastOp.op = "Click" /\ PreAligned)
    => /\ Completed
       /\ selected = CompIdx(pre.bar, lastOp.tab)
       /\ selected >= 0
       /\ addedWith[CompAt(comps, selected)] = lastOp.tab
       /\ dirty

\* C20 witness: the selector added second is clicked when the removal of
\* the first pair has moved it to position 0 of three and the last pair is
\* selected.
C20_Witness ==
    /\ lastOp.op = "Click" /\ lastOp.tab = <<"tab", 2>>
    /\ Len(pre.bar) = 3 /\ CompIdx(pre.bar, <<"tab", 2>>) = 0
    /\ pre.selected = 2
    /\ selected = 0 /\ dirty /\ Completed
    /\ CompAt(comps, 0) = <<"content", 2>>

\* The positions in what Render wrote: where the tab bar starts, the cells
\* that hold a content component, and the empty cells (a "<td>" that is
\* not the cell opened for the tab bar).
BarAt == {k \in 1..Len(out) : out[k] = Fragment("tabBar")}

ContentCells == {k \in 1..Len(out) : out[k].tag = "td"}

EmptyCells ==
    {k \in 1..Len(out) :
        /\ out[k] = Fragment("<td>")
        /\ k = Len(out) \/ out[k + 1] # Fragment("tabBar")}

RenderedContents ==
    {out[k].comp : k \in {j \in 1..Len(out) : out[j].tag = "comp"}}
        \cap ContentComps

\* C21: Render completes and renders the content component at Selected()
\* and no other content component (one empty cell and no content when
\* nothing is selected); the tab bar is written before the content for the
\* placements TOP and LEFT and after it for BOTTOM and RIGHT; Render leaves
\* the panel's state as it was.
C21_RenderSelectedOnly ==
    lastOp.op = "Render" =>
        /\ Completed
        /\ Cardinality(BarAt) = 1
        /\ IF selected >= 0
           THEN /\ RenderedContents = {CompAt(comps, selected)}
                /\ CompAt(comps, selected) \in ContentComps
                /\ Cardinality(ContentCells) = 1
                /\ \A k \in ContentCells :
                       /\ out[k].comp = CompAt(comps, selected)
                       /\ out[k + 1] = Rendered("comp", out[k].comp)
                /\ EmptyCells = {}
           ELSE /\ RenderedContents = {}
                /\ ContentCells = {}
                /\ Cardinality(EmptyCells) = 1
        /\ \A b \in BarAt : \A k \in ContentCells \cup EmptyCells :
               IF tabBarPlacement \in {TB_PLACEMENT_TOP, TB_PLACEMENT_LEFT}
               THEN b < k
               ELSE k < b
        /\ ThePre = pre

\* Render with the tab bar at the bottom and the second of three tabs
\* selected: the second content, and only it, is written, before the bar.
C21_Witness ==
    /\ lastOp.op = "Render" /\ Completed
    /\ tabBarPlacement = TB_PLACEMENT_BOTTOM
    /\ Len(comps) = 3 /\ selected = 1
    /\ RenderedContents = {<<"content", 2>>}
    /\ \A b \in BarAt : \A k \in ContentCells : k < b
    /\ BarAt # {}

\* C22: after every SetState call on members of a RadioGroup, a member b has
\* State() = true if and only if the group's Selected() is b; Selected() is
\* none exactly when every member is off, and SetState(false) on the
\* selected member makes Selected() none.
C22_SelectedIsTheMemberOn ==
    \A g \in Groups :
        /\ \A b \in RadioButtons :
               Group(b) = g => (state[b] <=> grpSelected[g] = b)
        /\ grpSelected[g] = Nil <=> MembersOn(g) = {}
        /\ (/\ btnLast.op = "SetState" /\ btnLast.arg = FALSE
            /\ Group(btnLast.button) = g
            /\ btnPre.selected[g] = btnLast.button)
           => grpSelected[g] = Nil

\* C22 witness: SetState(false) on the selected member of a group; no member
\* is on and nothing is selected.
C22_Witness ==
    /\ btnLast.op = "SetState" /\ btnLast.arg = FALSE
    /\ Group(btnLast.button) = "h"
    /\ btnPre.selected["h"] = btnLast.button
    /\ btnPre.state[btnLast.button]
    /\ grpSelected["h"] = Nil
    /\ MembersOn("h") = {}

\* C23: after every SetState call on members of a RadioGroup, if
\* PrevSelected() is not none then that button has State() = false and is
\* not the button Selected() returns.
C23_PrevSelectedIsOff ==
    \A g \in Groups :
        grpPrevSelected[g] # Nil
        => /\ ~state[grpPrevSelected[g]]
           /\ grpPrevSelected[g] # grpSelected[g]

\* C23 witness: the third member of a group was selected after the second,
\* which was selected after the first.
C23_Witness ==
    /\ btnLast.op = "SetState" /\ btnLast.arg = TRUE
    /\ btnLast.button = <<"h", 3>>
    /\ btnPre.prevSelected["h"] = <<"h", 1>>
    /\ grpPrevSelected["h"] = <<"h", 2>>
    /\ grpSelected["h"] = <<"h", 3>>
    /\ ~state[<<"h", 2>>]

====
